---- MODULE Spec2Model ----
(***************************************************************************)
(* Model of the F1 fantasy backend (src/main.py, src/models.py).           *)
(*                                                                         *)
(* State: the two database tables the handlers read and write              *)
(* (team_table: name -> roster and points; locked_seasons: season id ->    *)
(* the row of the season), the HTTP response of the last request, and, for *)
(* requests that overlap in time, what each running handler has loaded     *)
(* (inflight).                                                             *)
(* One action per endpoint; an action is the whole handler, from its       *)
(* query to its db.commit() or its raised HTTPException. SpecOverlap       *)
(* splits update_race_points at its wait for the feed.                     *)
(*                                                                         *)
(* Points are kept as integer hundredths (the code rounds every per-driver *)
(* value to 2 decimals, main.py:420).                                      *)
(***************************************************************************)
EXTENDS Integers, Sequences, FiniteSets, TLC

VARIABLES team_table, locked_seasons, response, inflight

vars == <<team_table, locked_seasons, response, inflight>>

----------------------------------------------------------------------------
(* Bounds of the model *)

\* lock_teams creates a fresh uuid season on every success: cap the number of rows
MaxSeasons == 1

\* a season can score at most this many races
MaxProcessed == 2

----------------------------------------------------------------------------
(* Program constants *)

\* main.py:151 and main.py:191: a roster holds 6 drivers
RosterSize == 6

\* main.py:188: a season is locked with exactly 3 teams
TeamsToLock == 3

\* main.py:420: round(pts, 2); one point is 100 hundredths
Hundredths == 100

FREE_AGENCY == "__FREE_AGENCY__"

\* main.py:12-28: the calendar, as the round numbers ROUND_MAP gives RACE_LIST
RACE_LIST ==
    << "Bahrain", "Saudi Arabia", "Miami", "Imola", "Monaco", "Spain", "Canada",
       "Austria", "UK", "Belgium", "Hungary", "Netherlands", "Monza", "Azerbaijan",
       "Singapore", "Texas", "Mexico", "Brazil", "Vegas", "Qatar", "Abu Dhabi" >>

ROUND_MAP ==
    [ name \in { RACE_LIST[i] : i \in DOMAIN RACE_LIST } |->
        CASE name = "Bahrain" -> "4" [] name = "Saudi Arabia" -> "5"
          [] name = "Miami" -> "6" [] name = "Imola" -> "7"
          [] name = "Monaco" -> "8" [] name = "Spain" -> "9"
          [] name = "Canada" -> "10" [] name = "Austria" -> "11"
          [] name = "UK" -> "12" [] name = "Belgium" -> "13"
          [] name = "Hungary" -> "14" [] name = "Netherlands" -> "15"
          [] name = "Monza" -> "16" [] name = "Azerbaijan" -> "17"
          [] name = "Singapore" -> "18" [] name = "Texas" -> "19"
          [] name = "Mexico" -> "20" [] name = "Brazil" -> "21"
          [] name = "Vegas" -> "22" [] name = "Qatar" -> "23"
          [] OTHER -> "24" ]

\* main.py:32-43, in hundredths of a point
BONUS_MAP ==
    [ pos \in 11..20 |->
        CASE pos = 11 -> 50 [] pos = 12 -> 40 [] pos = 13 -> 30 [] pos = 14 -> 20
          [] pos = 15 -> 10 [] pos = 16 -> 5 [] pos = 17 -> 4 [] pos = 18 -> 3
          [] pos = 19 -> 2 [] OTHER -> 1 ]

\* main.py:93-105
fallback_2025_driver_list ==
    << "Max Verstappen", "Liam Lawson", "Lando Norris", "Oscar Piastri",
       "Charles Leclerc", "Lewis Hamilton", "George Russell",
       "Andrea Kimi Antonelli", "Fernando Alonso", "Lance Stroll",
       "Pierre Gasly", "Jack Doohan", "Esteban Ocon", "Oliver Bearman",
       "Isack Hadjar", "Yuki Tsunoda", "Alexander Albon", "Carlos Sainz Jr.",
       "Nico Hulkenberg", "Gabriel Bortoleto" >>

\* main.py:74-91: the driver cache filled at startup (here: the fallback list)
fetched_drivers == fallback_2025_driver_list

\* models.py:20-36, mutated: the class also maps the free_agents column that
\* trade_locked reads and writes
LockedSeasonColumnsWithFreeAgents ==
    { "id", "season_id", "teams", "points", "trade_history", "race_points",
      "processed_races", "free_agents" }

\* models.py:20-36: the mapped columns of LockedSeason
LockedSeasonColumns ==
    { "id", "season_id", "teams", "points", "trade_history", "race_points",
      "processed_races" }

----------------------------------------------------------------------------
(* Python list and dict helpers *)

Range(s) == { s[i] : i \in DOMAIN s }

\* list.remove(d): drops the first occurrence
RECURSIVE ListRemove(_, _)
ListRemove(s, d) ==
    IF s = << >> THEN << >>
    ELSE IF Head(s) = d THEN Tail(s)
    ELSE << Head(s) >> \o ListRemove(Tail(s), d)

\* dict[k] = v, inserting the key when absent
DictSet(f, k, v) == (k :> v) @@ f

\* dict.get(k, default)
DictGet(f, k, default) == IF k \in DOMAIN f THEN f[k] ELSE default

EmptyDict == [ x \in {} |-> 0 ]

RECURSIVE SumOver(_, _)
SumOver(S, f) ==
    IF S = {} THEN 0
    ELSE LET x == CHOOSE y \in S : TRUE IN f[x] + SumOver(S \ {x}, f)

----------------------------------------------------------------------------
(* Inputs *)

\* team_name values sent to register_team
RegisterInputs == { "D" }

\* (team_name, driver_name) pairs sent to draft_driver and undo_draft
DraftInputs ==
    { << "C", "Carlos Sainz Jr." >>, << "B", "Nico Hulkenberg" >>,
      << "D", "Carlos Sainz Jr." >> }

\* A teams table the draft can have produced: A and B are full, C is one short
DraftedTable ==
    [ t \in { "A", "B", "C" } |->
        [ roster |-> CASE t = "A" -> SubSeq(fallback_2025_driver_list, 1, 6)
                       [] t = "B" -> SubSeq(fallback_2025_driver_list, 7, 12)
                       [] OTHER -> SubSeq(fallback_2025_driver_list, 13, 17),
          points |-> 0 ] ]

NoResponse == [ op |-> "none", status |-> 0, detail |-> "", req |-> << >> ]

Resp(op, status, detail, req) ==
    [ op |-> op, status |-> status, detail |-> detail, req |-> req ]

----------------------------------------------------------------------------
(* Draft phase: register_team, draft_driver, undo_draft, reset_teams *)

\* main.py:115-122
register_team(team_name) ==
    LET req == << team_name >> IN
    /\ IF team_name \in DOMAIN team_table
       THEN /\ response' = Resp("register_team", 200, "Team name already exists.", req)
            /\ UNCHANGED team_table
       ELSE /\ team_table' = DictSet(team_table, team_name, [ roster |-> << >>, points |-> 0 ])
            /\ response' = Resp("register_team", 200, "registered", req)
    /\ UNCHANGED <<locked_seasons, inflight>>

\* main.py:151, mutated: the size test lets a 7th driver in
RosterFullOffByOne(roster) == Len(roster) > RosterSize

\* main.py:151
RosterFull(roster) == Len(roster) >= RosterSize

\* main.py:154-156, mutated: the global uniqueness loop is missing
AlreadyDraftedUnchecked(tbl, driver_name) == FALSE

\* main.py:154-156
AlreadyDrafted(tbl, driver_name) ==
    \E t \in DOMAIN tbl : driver_name \in Range(tbl[t].roster)

\* main.py:145-160
draft_driver(team_name, driver_name) ==
    LET req == << team_name, driver_name >> IN
    /\ IF team_name \notin DOMAIN team_table
       THEN /\ response' = Resp("draft_driver", 404, "Team not found.", req)
            /\ UNCHANGED team_table
       ELSE IF RosterFull(team_table[team_name].roster)
       THEN /\ response' = Resp("draft_driver", 400, "Team already has 6 drivers!", req)
            /\ UNCHANGED team_table
       ELSE IF AlreadyDrafted(team_table, driver_name)
       THEN /\ response' = Resp("draft_driver", 400, "Driver already drafted.", req)
            /\ UNCHANGED team_table
       ELSE /\ team_table' =
                 [ team_table EXCEPT ![team_name].roster = Append(@, driver_name) ]
            /\ response' = Resp("draft_driver", 200, "drafted", req)
    /\ UNCHANGED <<locked_seasons, inflight>>

\* main.py:162-173
undo_draft(team_name, driver_name) ==
    LET req == << team_name, driver_name >> IN
    /\ IF team_name \notin DOMAIN team_table
       THEN /\ response' = Resp("undo_draft", 404, "Team not found.", req)
            /\ UNCHANGED team_table
       ELSE IF driver_name \notin Range(team_table[team_name].roster)
       THEN /\ response' = Resp("undo_draft", 400, "Driver not on this team.", req)
            /\ UNCHANGED team_table
       ELSE /\ team_table' =
                 [ team_table EXCEPT ![team_name].roster = ListRemove(@, driver_name) ]
            /\ response' = Resp("undo_draft", 200, "removed", req)
    /\ UNCHANGED <<locked_seasons, inflight>>

\* main.py:175-179, mutated: the reset deletes the locked seasons too
reset_teams_and_seasons ==
    /\ team_table' = EmptyDict
    /\ locked_seasons' = EmptyDict
    /\ response' = Resp("reset_teams", 200, "reset", << >>)
    /\ UNCHANGED inflight

\* main.py:175-179
reset_teams ==
    /\ team_table' = EmptyDict
    /\ response' = Resp("reset_teams", 200, "reset", << >>)
    /\ UNCHANGED <<locked_seasons, inflight>>

----------------------------------------------------------------------------
(* lock_teams *)

\* main.py:191, mutated: a short roster passes the size test
LockRosterOkAtMost(roster) == Len(roster) <= RosterSize

\* main.py:191
LockRosterOk(roster) == Len(roster) = RosterSize

\* main.py:193: uuid4 gives an identifier no other season has
NewSeasonId == Cardinality(DOMAIN locked_seasons) + 1

\* main.py:194-203: the row lock_teams inserts
NewLockedSeason(tbl) ==
    [ teams |-> [ t \in DOMAIN tbl |-> tbl[t].roster ],
      points |-> [ t \in DOMAIN tbl |-> tbl[t].points * Hundredths ],
      trade_history |-> << >>,
      race_points |-> EmptyDict,
      processed_races |-> << >> ]

\* main.py:185-206. The rows come back in no stated order, so the team named by the
\* error is any team whose roster is not full.
lock_teams ==
    /\ Cardinality(DOMAIN locked_seasons) < MaxSeasons
    /\ IF Cardinality(DOMAIN team_table) # TeamsToLock
       THEN /\ response' = Resp("lock_teams", 400, "We need exactly 3 teams to lock.", << >>)
            /\ UNCHANGED locked_seasons
       ELSE IF \E t \in DOMAIN team_table : ~LockRosterOk(team_table[t].roster)
       THEN /\ \E t \in DOMAIN team_table :
                 /\ ~LockRosterOk(team_table[t].roster)
                 /\ response' = Resp("lock_teams", 400, t, << >>)
            /\ UNCHANGED locked_seasons
       ELSE /\ locked_seasons' =
                 DictSet(locked_seasons, NewSeasonId, NewLockedSeason(team_table))
            /\ response' = Resp("lock_teams", 200, "locked", << NewSeasonId >>)
    /\ UNCHANGED <<team_table, inflight>>

----------------------------------------------------------------------------
(* trade_locked *)

\* main.py:268-272 and 274-280: remove each driver in turn, stop at the first one
\* that is not in the list
RECURSIVE RemoveDrivers(_, _)
RemoveDrivers(roster, drivers) ==
    IF drivers = << >> THEN [ ok |-> TRUE, list |-> roster ]
    ELSE IF Head(drivers) \notin Range(roster) THEN [ ok |-> FALSE, list |-> roster ]
    ELSE RemoveDrivers(ListRemove(roster, Head(drivers)), Tail(drivers))

\* main.py:259-263: the four attributes read from the row. free_agents is read like
\* the others, and LockedSeason maps no such column.
TradeLoad(led) ==
    [ teams |-> led.teams,
      free_agents |-> IF "free_agents" \in DOMAIN led THEN led.free_agents ELSE << >>,
      points |-> led.points,
      history |-> led.trade_history ]

\* main.py:267-281 (side = from) and 283-297 (side = to)
TradeRemove(w, team, drivers) ==
    IF team = FREE_AGENCY
    THEN LET r == RemoveDrivers(w.free_agents, drivers) IN
         [ ok |-> r.ok, w |-> [ w EXCEPT !.free_agents = r.list ] ]
    ELSE LET r == RemoveDrivers(DictGet(w.teams, team, << >>), drivers) IN
         [ ok |-> r.ok,
           w |-> IF r.ok THEN [ w EXCEPT !.teams = DictSet(w.teams, team, r.list) ]
                 ELSE [ w EXCEPT !.teams =
                          IF team \in DOMAIN w.teams
                          THEN DictSet(w.teams, team, r.list) ELSE w.teams ] ]

\* main.py:299-308
TradeAdd(w, team, drivers) ==
    IF team = FREE_AGENCY
    THEN [ w EXCEPT !.free_agents = @ \o drivers ]
    ELSE [ w EXCEPT !.teams = DictSet(w.teams, team, DictGet(w.teams, team, << >>) \o drivers) ]

\* main.py:310-316
TradeSweetener(w, request) ==
    LET p0 == DictSet(w.points, request.from_team, DictGet(w.points, request.from_team, 0))
        p1 == DictSet(p0, request.to_team, DictGet(p0, request.to_team, 0))
        p2 == [ p1 EXCEPT ![request.from_team] = @ - request.from_team_points * Hundredths ]
        p3 == [ p2 EXCEPT ![request.to_team] = @ + request.from_team_points * Hundredths ]
        p4 == [ p3 EXCEPT ![request.to_team] = @ - request.to_team_points * Hundredths ]
        p5 == [ p4 EXCEPT ![request.from_team] = @ + request.to_team_points * Hundredths ]
    IN [ w EXCEPT !.points = p5 ]

\* main.py:318-324: the history line, without its wall-clock time
TradeLog(w, request) ==
    [ w EXCEPT !.history =
        Append(@, << request.from_team, request.drivers_from_team,
                     request.from_team_points, request.to_team,
                     request.drivers_to_team, request.to_team_points >>) ]

\* main.py:326-331
TradePersist(led, w) ==
    LET l1 == [ led EXCEPT !.teams = w.teams, !.points = w.points,
                           !.trade_history = w.history ]
    IN DictSet(l1, "free_agents", w.free_agents)

\* main.py:249-333, mutated: the handler works on the stored ledger itself (as a
\* process-wide dictionary), with no free_agents column to read, so what it changed
\* before a failing check stays changed
trade_locked_in_place(led, request) ==
    LET w0 == TradeLoad(led)
        r1 == TradeRemove(w0, request.from_team, request.drivers_from_team)
        r2 == TradeRemove(r1.w, request.to_team, request.drivers_to_team)
        w3 == TradeAdd(r2.w, request.to_team, request.drivers_from_team)
        w4 == TradeAdd(w3, request.from_team, request.drivers_to_team)
        w6 == TradeLog(TradeSweetener(w4, request), request)
    IN  IF ~r1.ok THEN [ status |-> 400, led |-> [ led EXCEPT !.teams = r1.w.teams ] ]
        ELSE IF ~r2.ok THEN [ status |-> 400, led |-> [ led EXCEPT !.teams = r2.w.teams ] ]
        ELSE [ status |-> 200, led |-> TradePersist(led, w6) ]

\* main.py:318-331, mutated: the history line is written for every request, before
\* the rest of the handler runs, and stays when the request fails
trade_locked_row_logged(led, request) ==
    [ status |-> 500,
      led |-> [ led EXCEPT !.trade_history = TradeLog(TradeLoad(led), request).history ] ]

\* main.py:259-333, for a season that exists: the status of the response and the
\* row as it is after the request. Reading locked.free_agents (main.py:261) raises
\* AttributeError, an uncaught exception (500), when the column is not mapped.
trade_locked_row(led, request) ==
    IF "free_agents" \notin LockedSeasonColumns
    THEN [ status |-> 500, led |-> led ]
    ELSE LET w0 == TradeLoad(led)
             r1 == TradeRemove(w0, request.from_team, request.drivers_from_team)
             r2 == TradeRemove(r1.w, request.to_team, request.drivers_to_team)
             w3 == TradeAdd(r2.w, request.to_team, request.drivers_from_team)
             w4 == TradeAdd(w3, request.from_team, request.drivers_to_team)
             w6 == TradeLog(TradeSweetener(w4, request), request)
         IN  IF ~r1.ok \/ ~r2.ok
             THEN [ status |-> 400, led |-> led ]
             ELSE [ status |-> 200, led |-> TradePersist(led, w6) ]

\* main.py:249-333
trade_locked(season_id, request) ==
    LET req == << season_id, request >> IN
    /\ IF season_id \notin DOMAIN locked_seasons
       THEN /\ response' = Resp("trade_locked", 404, "Season not found.", req)
            /\ UNCHANGED locked_seasons
       ELSE LET r == trade_locked_row(locked_seasons[season_id], request) IN
            /\ response' = Resp("trade_locked", r.status, "", req)
            /\ locked_seasons' = [ locked_seasons EXCEPT ![season_id] = r.led ]
    /\ UNCHANGED <<team_table, inflight>>

TradeRequest(ft, tt, df, dt, fp, tp) ==
    [ from_team |-> ft, to_team |-> tt, drivers_from_team |-> df,
      drivers_to_team |-> dt, from_team_points |-> fp, to_team_points |-> tp ]

\* The trade requests sent
TradeRequests ==
    { TradeRequest("A", "B", << "Liam Lawson" >>, << >>, 0, 0),
      TradeRequest("A", "B", << "Lando Norris" >>, << "George Russell" >>, 10, 0),
      TradeRequest("B", "A", << "Fernando Alonso" >>, << "Oscar Piastri" >>, -5, 0),
      TradeRequest(FREE_AGENCY, "C", << "Gabriel Bortoleto" >>, << "Isack Hadjar" >>, 0, 0),
      TradeRequest("X", "A", << >>, << "Charles Leclerc" >>, 0, 0),
      TradeRequest("A", "C", << "Max Verstappen", "George Russell" >>,
                   << "Esteban Ocon" >>, 0, 0) }

----------------------------------------------------------------------------
(* update_race_points *)

Result(name, position, points, status) ==
    [ name |-> name, position |-> position, points |-> points, status |-> status ]

\* The results feed (main.py:388-403): what a round returns once its results are
\* published (driver name, finishing position, official points in hundredths,
\* status). The feed awards points to the first ten only (main.py:412).

\* The results of round 4; Albon has no entry
Round4Results ==
    << Result("Max Verstappen", 1, 25 * Hundredths, "Finished"),
       Result("George Russell", 2, 18 * Hundredths, "Finished"),
       Result("Lando Norris", 3, 15 * Hundredths, "Finished"),
       Result("Oscar Piastri", 4, 12 * Hundredths, "Finished"),
       Result("Charles Leclerc", 5, 10 * Hundredths, "Finished"),
       Result("Andrea Kimi Antonelli", 6, 8 * Hundredths, "Finished"),
       Result("Fernando Alonso", 7, 6 * Hundredths, "Finished"),
       Result("Pierre Gasly", 8, 4 * Hundredths, "Finished"),
       Result("Isack Hadjar", 9, 2 * Hundredths, "Finished"),
       Result("Yuki Tsunoda", 10, 1 * Hundredths, "Lapped"),
       Result("Esteban Ocon", 11, 0, "Finished"),
       Result("Lewis Hamilton", 12, 0, "Retired"),
       Result("Carlos Sainz Jr.", 13, 0, "Lapped"),
       Result("Lance Stroll", 14, 0, "Classified"),
       Result("Oliver Bearman", 15, 0, "Finished"),
       Result("Liam Lawson", 16, 0, "Disqualified"),
       Result("Nico Hulkenberg", 17, 0, "Finished"),
       Result("Gabriel Bortoleto", 18, 0, "Retired"),
       Result("Jack Doohan", 19, 0, "Finished") >>

\* The results of every other round
LaterResults ==
    << Result("Lando Norris", 1, 25 * Hundredths, "Finished"),
       Result("Oscar Piastri", 2, 18 * Hundredths, "Finished"),
       Result("Max Verstappen", 3, 15 * Hundredths, "Finished"),
       Result("Lewis Hamilton", 4, 12 * Hundredths, "Finished"),
       Result("Charles Leclerc", 5, 10 * Hundredths, "Finished"),
       Result("George Russell", 6, 8 * Hundredths, "Finished"),
       Result("Carlos Sainz Jr.", 7, 6 * Hundredths, "Finished"),
       Result("Alexander Albon", 8, 4 * Hundredths, "Finished"),
       Result("Nico Hulkenberg", 9, 2 * Hundredths, "Finished"),
       Result("Fernando Alonso", 10, 1 * Hundredths, "Finished"),
       Result("Andrea Kimi Antonelli", 11, 0, "Lapped"),
       Result("Yuki Tsunoda", 12, 0, "Finished"),
       Result("Pierre Gasly", 13, 0, "Retired"),
       Result("Isack Hadjar", 14, 0, "Finished"),
       Result("Oliver Bearman", 15, 0, "Classified"),
       Result("Esteban Ocon", 16, 0, "Finished"),
       Result("Lance Stroll", 17, 0, "Finished"),
       Result("Liam Lawson", 18, 0, "Lapped"),
       Result("Gabriel Bortoleto", 20, 0, "Finished"),
       Result("Jack Doohan", 21, 0, "Finished") >>

\* main.py:388-403: races[0]["Results"] of round race_id
FeedResults(race_id) == IF race_id = "4" THEN Round4Results ELSE LaterResults

\* main.py:409: str.lower() on the statuses the feed sends
Lower(status) ==
    CASE status = "Finished" -> "finished"
      [] status = "Classified" -> "classified"
      [] status = "Lapped" -> "lapped"
      [] status = "Retired" -> "retired"
      [] status = "Disqualified" -> "disqualified"
      [] OTHER -> status

\* main.py:412-420, mutated: the status of the entry is not looked at
DriverPointsAnyStatus(r) ==
    IF r.position \in DOMAIN BONUS_MAP
    THEN r.points + BONUS_MAP[r.position]
    ELSE r.points

\* main.py:412-420: official points, plus the bonus of a classified P11..P20
\* (hundredths are already rounded to 2 decimals)
DriverPoints(r) ==
    IF r.position \in DOMAIN BONUS_MAP
       /\ Lower(r.status) \in { "finished", "classified", "lapped" }
    THEN r.points + BONUS_MAP[r.position]
    ELSE r.points

\* main.py:405-422: driver -> points, a later entry of a name replacing an earlier
RECURSIVE BuildDriverPts(_, _)
BuildDriverPts(results, driver_pts) ==
    IF results = << >> THEN driver_pts
    ELSE BuildDriverPts(Tail(results),
                        DictSet(driver_pts, Head(results).name, DriverPoints(Head(results))))

\* main.py:428-431, mutated: the balance is set to the driver's points (=), not
\* increased by them (+=)
RECURSIVE ApplyRosterAssign(_, _, _, _)
ApplyRosterAssign(acc, team, roster, driver_pts) ==
    IF roster = << >> THEN acc
    ELSE LET drv == Head(roster)
             p == DictGet(driver_pts, drv, 0)
         IN ApplyRosterAssign([ race |-> DictSet(acc.race, drv, [ points |-> p, team |-> team ]),
                                pts_map |-> [ acc.pts_map EXCEPT ![team] = p ] ],
                              team, Tail(roster), driver_pts)

\* main.py:428-431: one team's roster, driver by driver
RECURSIVE ApplyRoster(_, _, _, _)
ApplyRoster(acc, team, roster, driver_pts) ==
    IF roster = << >> THEN acc
    ELSE LET drv == Head(roster)
             p == DictGet(driver_pts, drv, 0)
         IN ApplyRoster([ race |-> DictSet(acc.race, drv, [ points |-> p, team |-> team ]),
                          pts_map |-> [ acc.pts_map EXCEPT ![team] = @ + p ] ],
                        team, Tail(roster), driver_pts)

\* main.py:426-431: every team of the ledger (the order of the teams is immaterial
\* while no driver is on two rosters)
RECURSIVE ApplyTeams(_, _, _, _)
ApplyTeams(acc, todo, teams, driver_pts) ==
    IF todo = {} THEN acc
    ELSE LET team == CHOOSE t \in todo : TRUE
             a0 == [ acc EXCEPT !.pts_map =
                       DictSet(@, team, DictGet(acc.pts_map, team, 0)) ]
         IN ApplyTeams(ApplyRoster(a0, team, teams[team], driver_pts),
                       todo \ {team}, teams, driver_pts)

\* main.py:433-438, mutated: the balances and the breakdown are stored, the race is
\* not marked processed
ScoreRaceUnmarked(led, race_id, results) ==
    LET driver_pts == BuildDriverPts(results, EmptyDict)
        acc == ApplyTeams([ race |-> DictGet(led.race_points, race_id, EmptyDict),
                            pts_map |-> led.points ],
                          DOMAIN led.teams, led.teams, driver_pts)
    IN [ led EXCEPT !.points = acc.pts_map,
                    !.race_points = DictSet(@, race_id, acc.race) ]

\* main.py:433-438, mutated: the balances and the processed list are stored, the
\* breakdown is not
ScoreRaceNoBreakdown(led, race_id, results) ==
    LET driver_pts == BuildDriverPts(results, EmptyDict)
        acc == ApplyTeams([ race |-> DictGet(led.race_points, race_id, EmptyDict),
                            pts_map |-> led.points ],
                          DOMAIN led.teams, led.teams, driver_pts)
    IN [ led EXCEPT !.points = acc.pts_map,
                    !.processed_races = Append(@, race_id) ]

\* main.py:433-438, mutated: the scoring also writes a line to the trade history
ScoreRaceLogged(led, race_id, results) ==
    LET driver_pts == BuildDriverPts(results, EmptyDict)
        acc == ApplyTeams([ race |-> DictGet(led.race_points, race_id, EmptyDict),
                            pts_map |-> led.points ],
                          DOMAIN led.teams, led.teams, driver_pts)
    IN [ led EXCEPT !.points = acc.pts_map,
                    !.race_points = DictSet(@, race_id, acc.race),
                    !.processed_races = Append(@, race_id),
                    !.trade_history = Append(@, << race_id >>) ]

\* main.py:405-438: the row after race_id was scored with these results
ScoreRace(led, race_id, results) ==
    LET driver_pts == BuildDriverPts(results, EmptyDict)
        acc == ApplyTeams([ race |-> DictGet(led.race_points, race_id, EmptyDict),
                            pts_map |-> led.points ],
                          DOMAIN led.teams, led.teams, driver_pts)
    IN [ led EXCEPT !.points = acc.pts_map,
                    !.race_points = DictSet(@, race_id, acc.race),
                    !.processed_races = Append(@, race_id) ]

\* main.py:383, mutated: the double-processing guard is missing
AlreadyProcessedUnchecked(race_id, processed) == FALSE

\* main.py:383
AlreadyProcessed(race_id, processed) == race_id \in Range(processed)

\* main.py:363-366, mutated: rn is the number of the round, not its string, so
\* "rn in processed" never holds and no round is skipped
UnprocessedUnskipped(processed) ==
    [ i \in DOMAIN RACE_LIST |-> ROUND_MAP[RACE_LIST[i]] ]

\* main.py:363-366: the rounds of the calendar not yet processed, in calendar order
Unprocessed(processed) ==
    SelectSeq([ i \in DOMAIN RACE_LIST |-> ROUND_MAP[RACE_LIST[i]] ],
              LAMBDA rn : rn \notin Range(processed))

\* What a request to the feed comes back with: the results, a success with no race
\* in it (not yet published), a non-success status, or no answer at all
FeedOutcomes == { "ok", "empty", "non200", "unreachable" }

Answer(status, detail, led) == [ status |-> status, detail |-> detail, led |-> led ]

\* main.py:382-440, after race_id is resolved, on the row as the handler loaded it:
\* guard, fetch, score. The answer carries the row the handler goes on to persist.
ScoreResolved(led, race_id, fetch) ==
    IF AlreadyProcessed(race_id, led.processed_races)
    THEN Answer(400, "This race has already been processed.", led)
    ELSE IF fetch = "unreachable" THEN Answer(500, "unreachable", led)
    ELSE IF fetch = "non200" THEN Answer(400, "Error fetching race data.", led)
    ELSE IF fetch = "empty" THEN Answer(400, "No race data available for this round.", led)
    ELSE Answer(200, race_id, ScoreRace(led, race_id, FeedResults(race_id)))

\* main.py:354-440, for a season that exists. probe is the answer to the request of
\* the "latest" block (main.py:367-373; anything but a parsed body raises there),
\* fetch the answer to the request of step 4 (main.py:387-401).
update_race_points_row(led, race_id, probe, fetch) ==
    IF race_id = "latest"
    THEN LET todo == Unprocessed(led.processed_races) IN
         IF todo = << >> THEN Answer(400, "All races have been processed", led)
         ELSE IF probe \in { "unreachable", "non200" } THEN Answer(500, "unreachable", led)
         ELSE IF probe = "empty" THEN Answer(400, "Next race not yet available", led)
         ELSE ScoreResolved(led, Head(todo), fetch)
    ELSE ScoreResolved(led, race_id, fetch)

\* main.py:335-440
update_race_points(season_id, race_id, probe, fetch) ==
    LET req == << season_id, race_id >> IN
    /\ IF season_id \notin DOMAIN locked_seasons
       THEN /\ response' = Resp("update_race_points", 404, "Season not found.", req)
            /\ UNCHANGED locked_seasons
       ELSE LET led == locked_seasons[season_id]
                r == update_race_points_row(led, race_id, probe, fetch)
            IN /\ response' = Resp("update_race_points", r.status, r.detail, req)
               /\ locked_seasons' = [ locked_seasons EXCEPT ![season_id] = r.led ]
    /\ UNCHANGED <<team_table, inflight>>

\* main.py:442-455, for a season that exists: the drivers of the cache that are on
\* no roster of the ledger
get_free_agents(led) ==
    LET drafted == UNION { Range(led.teams[t]) : t \in DOMAIN led.teams }
    IN SelectSeq(fetched_drivers, LAMBDA d : d \notin drafted)

\* race_id values sent
RaceInputs == { "4", "5", "latest" }

\* The answers of the feed to one request, as << probe, fetch >>: only a "latest"
\* request sends the probe, and the fetch follows only a probe that found a race
FeedAnswers(race_id) ==
    { << "ok", f >> : f \in FeedOutcomes }
      \cup IF race_id = "latest"
           THEN { << p, "ok" >> : p \in FeedOutcomes \ { "non200" } } ELSE {}

\* The feed publishes no further results to a season that has scored MaxProcessed
\* races
UnderCap(season_id, answer) ==
    ( season_id \in DOMAIN locked_seasons /\ answer = << "ok", "ok" >> )
        => Len(locked_seasons[season_id].processed_races) < MaxProcessed

\* (season_id, race_id) pairs sent to update_race_points
ScoreInputs == ((DOMAIN locked_seasons) \X RaceInputs) \cup { << 0, "latest" >> }

\* (season_id, request) pairs sent to trade_locked
TradeInputs ==
    ((DOMAIN locked_seasons) \X TradeRequests)
      \cup { << 0, TradeRequest("A", "B", << >>, << >>, 0, 0) >> }

----------------------------------------------------------------------------
(* Requests that overlap in time.  The handlers are plain functions, which the     *)
(* framework runs in a pool of threads, each with its own database session: a      *)
(* handler loads the row (main.py:346-358), waits for the feed, and writes the     *)
(* columns it assigned at db.commit() (main.py:435-438). Nothing locks the row     *)
(* in between.                                                                     *)

Clients == { "c1", "c2" }

\* main.py:346-358: the session loads the row of the season
score_read(c, season_id, race_id) ==
    /\ c \notin DOMAIN inflight
    /\ season_id \in DOMAIN locked_seasons
    /\ inflight' = DictSet(inflight, c,
                     [ season_id |-> season_id, race_id |-> race_id,
                       led |-> locked_seasons[season_id] ])
    /\ UNCHANGED <<team_table, locked_seasons, response>>

\* main.py:360-440: the rest of the handler, on what it loaded; the commit updates
\* the three columns the handler assigned
score_commit(c, probe, fetch) ==
    /\ c \in DOMAIN inflight
    /\ LET q == inflight[c]
           r == update_race_points_row(q.led, q.race_id, probe, fetch)
       IN /\ r.status = 200 => Len(q.led.processed_races) < MaxProcessed
          /\ response' = Resp("update_race_points", r.status, r.detail,
                              << q.season_id, q.race_id >>)
          /\ locked_seasons' =
               IF r.status = 200
               THEN [ locked_seasons EXCEPT
                        ![q.season_id].points = r.led.points,
                        ![q.season_id].race_points = r.led.race_points,
                        ![q.season_id].processed_races = r.led.processed_races ]
               ELSE locked_seasons
    /\ inflight' = [ x \in DOMAIN inflight \ {c} |-> inflight[x] ]
    /\ UNCHANGED team_table

\* A teams table lock_teams accepts
FullTable ==
    [ DraftedTable EXCEPT !["C"].roster = Append(@, "Carlos Sainz Jr.") ]

\* A database with one locked season
InitLocked ==
    /\ team_table = FullTable
    /\ locked_seasons = DictSet(EmptyDict, 1, NewLockedSeason(FullTable))
    /\ response = NoResponse
    /\ inflight = EmptyDict

NextOverlap ==
    \/ \E c \in Clients, i \in ScoreInputs : score_read(c, i[1], i[2])
    \/ \E c \in Clients : \E a \in FeedAnswers("latest") : score_commit(c, a[1], a[2])
    \/ \E i \in TradeInputs : trade_locked(i[1], i[2])

SpecOverlap == InitLocked /\ [][NextOverlap]_vars

----------------------------------------------------------------------------
(* A whole season: one locked season is scored round after round, by "latest"     *)
(* requests and by requests that name round 6, with trade requests in between.    *)

\* race_id values sent over the season
CalendarInputs == { "latest", "6" }

NextCalendar ==
    \/ \E r \in CalendarInputs : \E a \in FeedAnswers(r) :
          update_race_points(1, r, a[1], a[2])
    \/ \E i \in TradeInputs : trade_locked(i[1], i[2])

SpecCalendar == InitLocked /\ [][NextCalendar]_vars

----------------------------------------------------------------------------
(* Specification *)

Init ==
    /\ team_table \in { EmptyDict, DraftedTable }
    /\ locked_seasons = EmptyDict
    /\ response = NoResponse
    /\ inflight = EmptyDict

Next ==
    \/ \E t \in RegisterInputs : register_team(t)
    \/ \E i \in DraftInputs : draft_driver(i[1], i[2])
    \/ \E i \in DraftInputs : undo_draft(i[1], i[2])
    \/ reset_teams
    \/ lock_teams
    \/ \E i \in TradeInputs : trade_locked(i[1], i[2])
    \/ \E i \in ScoreInputs : \E a \in FeedAnswers(i[2]) :
          UnderCap(i[1], a) /\ update_race_points(i[1], i[2], a[1], a[2])

Spec == Init /\ [][Next]_vars

----------------------------------------------------------------------------
(* Properties *)

\* The seasons and what the last request was
Seasons == DOMAIN locked_seasons

IsPrefix(s, t) == Len(s) <= Len(t) /\ SubSeq(t, 1, Len(s)) = s

\* No driver is on the rosters of two different teams
NoSharedDriver(rosters) ==
    \A t1 \in DOMAIN rosters, t2 \in DOMAIN rosters :
        t1 # t2 => Range(rosters[t1]) \cap Range(rosters[t2]) = {}

\* The last request was a trade on a season that exists
TradedOnSeason ==
    /\ response.op = "trade_locked"
    /\ response.req[1] \in Seasons

\* C1: in every reachable state no driver is on the roster of two different teams,
\* in the teams table and in every locked season, whatever was drafted, undone,
\* reset, locked, traded or scored before.
C1_DriverOnOneTeam ==
    /\ NoSharedDriver([ t \in DOMAIN team_table |-> team_table[t].roster ])
    /\ \A s \in Seasons : NoSharedDriver(locked_seasons[s].teams)

\* C1 witness: a trade was requested on a locked season whose three rosters are full
C1_Witness ==
    /\ TradedOnSeason
    /\ \A t \in DOMAIN locked_seasons[response.req[1]].teams :
          Len(locked_seasons[response.req[1]].teams[t]) = RosterSize

\* C2: a request to score a race identifier that is already in the season's
\* processed list is answered 400 and leaves every season (balances, breakdown,
\* processed list) as it was.
C2_SecondProcessingRejected ==
    [][ ( /\ response'.op = "update_race_points"
          /\ response'.req[1] \in Seasons
          /\ response'.req[2] \in Range(locked_seasons[response'.req[1]].processed_races) )
        => ( /\ response'.status = 400
             /\ response'.detail = "This race has already been processed."
             /\ locked_seasons' = locked_seasons ) ]_vars

\* C2 witness: a processed race was sent again and refused
C2_Witness ==
    /\ response.op = "update_race_points"
    /\ response.status = 400
    /\ response.req[1] \in Seasons
    /\ response.req[2] \in Range(locked_seasons[response.req[1]].processed_races)

\* C3: a trade request that is not answered 200 leaves both tables as they were.
C3_RejectedTradeChangesNothing ==
    [][ ( response'.op = "trade_locked" /\ response'.status # 200 )
        => ( locked_seasons' = locked_seasons /\ team_table' = team_table ) ]_vars

\* C3 witness: a rejected trade on a season that exists, whose first driver is on
\* the roster of from_team and whose second driver is not
C3_Witness ==
    /\ TradedOnSeason
    /\ response.status # 200
    /\ LET request == response.req[2]
           roster == locked_seasons[response.req[1]].teams[request.from_team]
       IN /\ Len(request.drivers_from_team) = 2
          /\ request.drivers_from_team[1] \in Range(roster)
          /\ request.drivers_from_team[2] \notin Range(roster)

\* C4: a trade request that gives a different number of drivers on each side is not
\* answered 200 and changes no roster; and every roster of every season holds 6
\* drivers in every reachable state.
C4_UnequalTradeRejected ==
    /\ [][ ( /\ response'.op = "trade_locked"
             /\ Len(response'.req[2].drivers_from_team)
                  # Len(response'.req[2].drivers_to_team) )
           => ( /\ response'.status # 200
                /\ \A s \in Seasons : locked_seasons'[s].teams = locked_seasons[s].teams ) ]_vars
    /\ [](\A s \in Seasons : \A t \in DOMAIN locked_seasons[s].teams :
              Len(locked_seasons[s].teams[t]) = RosterSize)

\* C4 witness: a one-for-none trade was requested on a season that exists
C4_Witness ==
    /\ TradedOnSeason
    /\ response.status # 200
    /\ Len(response.req[2].drivers_from_team) = 1
    /\ Len(response.req[2].drivers_to_team) = 0

\* The points the breakdown of a season records for a team, over all its races
BreakdownPoints(led, team) ==
    LET entries == { << r, d >> \in UNION { {r} \X DOMAIN led.race_points[r] :
                                                r \in DOMAIN led.race_points } :
                        led.race_points[r][d].team = team }
    IN SumOver(entries, [ e \in entries |-> led.race_points[e[1]][e[2]].points ])

\* The processed list, the breakdown and the balances of a season tell the same races
ScoredTogether(led) ==
    /\ Range(led.processed_races) = DOMAIN led.race_points
    /\ Cardinality(Range(led.processed_races)) = Len(led.processed_races)
    /\ \A t \in DOMAIN led.points : led.points[t] = BreakdownPoints(led, t)

\* C5: a scoring request either is answered 200 and, in one step, appends a race
\* that was not processed to the processed list, records its breakdown and adds its
\* points, or is not answered 200 and leaves every season as it was; and in every
\* reachable state the processed races are exactly the races of the breakdown and
\* each balance is the sum of the points the breakdown records for that team.
C5_ScoringAllOrNothing ==
    /\ [][ response'.op = "update_race_points"
           => \/ /\ response'.status # 200
                 /\ locked_seasons' = locked_seasons
              \/ /\ response'.status = 200
                 /\ LET s == response'.req[1]
                        race == response'.detail
                    IN /\ s \in Seasons
                       /\ race \notin Range(locked_seasons[s].processed_races)
                       /\ locked_seasons'[s].processed_races
                            = Append(locked_seasons[s].processed_races, race)
                       /\ race \in DOMAIN locked_seasons'[s].race_points ]_vars
    /\ [](\A s \in Seasons : ScoredTogether(locked_seasons[s]))

\* C5 witness: a season with a scored race and non-zero balances, whose last scoring
\* request failed at the feed
C5_Witness ==
    /\ response.op = "update_race_points"
    /\ response.status = 500
    /\ response.req[1] \in Seasons
    /\ locked_seasons[response.req[1]].processed_races # << >>
    /\ \E t \in DOMAIN locked_seasons[response.req[1]].points :
          locked_seasons[response.req[1]].points[t] > 0

\* The teams table is one lock_teams accepts
Lockable ==
    /\ Cardinality(DOMAIN team_table) = TeamsToLock
    /\ \A t \in DOMAIN team_table : Len(team_table[t].roster) = RosterSize

\* C6, as claimed: lock_teams succeeds exactly when the table holds 3 teams of 6
\* drivers each; in every other case it creates no season and its error names a
\* team that does not have 6 drivers.
C6_LockFailureNamesTeam ==
    [][ response'.op = "lock_teams"
        => /\ response'.status = 200 <=> Lockable
           /\ ~Lockable
                => /\ locked_seasons' = locked_seasons
                   /\ response'.detail \in DOMAIN team_table
                   /\ Len(team_table[response'.detail].roster) # RosterSize ]_vars

\* C6, amended: lock_teams succeeds, and adds one season, exactly when the table
\* holds 3 teams of 6 drivers each; in every other case it creates no season, and
\* its error names a team that does not have 6 drivers when there are 3 teams, and
\* names no team when the number of teams is not 3.
C6_LockIffThreeFullTeams ==
    [][ response'.op = "lock_teams"
        => /\ response'.status = 200 <=> Lockable
           /\ Lockable
                => Cardinality(DOMAIN locked_seasons') = Cardinality(Seasons) + 1
           /\ ~Lockable
                => /\ locked_seasons' = locked_seasons
                   /\ IF Cardinality(DOMAIN team_table) = TeamsToLock
                      THEN /\ response'.detail \in DOMAIN team_table
                           /\ Len(team_table[response'.detail].roster) # RosterSize
                      ELSE response'.detail = "We need exactly 3 teams to lock." ]_vars

\* C6 witness: lock_teams refused a table of 3 teams and named the team that is
\* one driver short
C6_Witness ==
    /\ response.op = "lock_teams"
    /\ response.status = 400
    /\ Cardinality(DOMAIN team_table) = TeamsToLock
    /\ response.detail \in DOMAIN team_table
    /\ Len(team_table[response.detail].roster) = RosterSize - 1

\* C7: no roster of the teams table ever holds more than 6 drivers, and a draft
\* for a team that holds 6 is answered 400 and leaves the table as it was.
C7_RosterAtMostSix ==
    /\ [](\A t \in DOMAIN team_table : Len(team_table[t].roster) <= RosterSize)
    /\ [][ ( /\ response'.op = "draft_driver"
             /\ response'.req[1] \in DOMAIN team_table
             /\ Len(team_table[response'.req[1]].roster) >= RosterSize )
           => ( response'.status = 400 /\ team_table' = team_table ) ]_vars

\* C7 witness: a 7th driver was refused
C7_Witness ==
    /\ response.op = "draft_driver"
    /\ response.status = 400
    /\ response.detail = "Team already has 6 drivers!"
    /\ Len(team_table[response.req[1]].roster) = RosterSize

\* C8, as claimed: requests on one season that overlap leave the ledger as some
\* order of them one after the other would; in particular no committed update is
\* lost: a processed race stays processed, its breakdown stays recorded, and the
\* trade history only grows.
C8_NoLostUpdate ==
    [][ \A s \in Seasons :
          /\ IsPrefix(locked_seasons[s].processed_races, locked_seasons'[s].processed_races)
          /\ \A r \in DOMAIN locked_seasons[s].race_points :
                /\ r \in DOMAIN locked_seasons'[s].race_points
                /\ locked_seasons'[s].race_points[r] = locked_seasons[s].race_points[r]
          /\ IsPrefix(locked_seasons[s].trade_history, locked_seasons'[s].trade_history) ]_vars

\* A sweetener of the request is negative or more than its payer's balance
BadSweetener(led, request) ==
    \/ request.from_team_points < 0
    \/ request.to_team_points < 0
    \/ request.from_team_points * Hundredths > DictGet(led.points, request.from_team, 0)
    \/ request.to_team_points * Hundredths > DictGet(led.points, request.to_team, 0)

\* C9: a trade request with a negative sweetener, or with a sweetener larger than
\* the balance of the team that pays it, is not answered 200 and changes no
\* balance; and no balance of any season is ever negative.
C9_NoNegativeBalance ==
    /\ [][ ( /\ response'.op = "trade_locked"
             /\ response'.req[1] \in Seasons
             /\ BadSweetener(locked_seasons[response'.req[1]], response'.req[2]) )
           => ( /\ response'.status # 200
                /\ locked_seasons'[response'.req[1]].points
                     = locked_seasons[response'.req[1]].points ) ]_vars
    /\ [](\A s \in Seasons : \A t \in DOMAIN locked_seasons[s].points :
              locked_seasons[s].points[t] >= 0)

\* C9 witness: a trade with a negative sweetener was requested on a season that
\* has scored points
C9_Witness ==
    /\ TradedOnSeason
    /\ response.status # 200
    /\ response.req[2].from_team_points < 0
    /\ \E t \in DOMAIN locked_seasons[response.req[1]].points :
          locked_seasons[response.req[1]].points[t] > 0

\* The request meets every precondition of a trade between two teams of the ledger
ValidTeamTrade(led, request) ==
    /\ request.from_team \in DOMAIN led.teams
    /\ request.to_team \in DOMAIN led.teams
    /\ request.from_team # request.to_team
    /\ Range(request.drivers_from_team) \subseteq Range(led.teams[request.from_team])
    /\ Range(request.drivers_to_team) \subseteq Range(led.teams[request.to_team])
    /\ Len(request.drivers_from_team) = Len(request.drivers_to_team)
    /\ ~BadSweetener(led, request)

\* C10, as claimed: a trade that meets its preconditions changes the balances by
\* the sweeteners: from_team's becomes old - sweetener_from + sweetener_to, to_team's
\* becomes old + sweetener_from - sweetener_to, every other balance is unchanged.
C10_SweetenerTransfer ==
    [][ ( /\ response'.op = "trade_locked"
          /\ response'.req[1] \in Seasons
          /\ ValidTeamTrade(locked_seasons[response'.req[1]], response'.req[2]) )
        => LET old == locked_seasons[response'.req[1]].points
               new == locked_seasons'[response'.req[1]].points
               request == response'.req[2]
               net == (request.from_team_points - request.to_team_points) * Hundredths
           IN /\ DOMAIN new = DOMAIN old
              /\ new[request.from_team] = old[request.from_team] - net
              /\ new[request.to_team] = old[request.to_team] + net
              /\ \A t \in DOMAIN old \ { request.from_team, request.to_team } :
                    new[t] = old[t] ]_vars

\* C11, as claimed: a trade on a season that exists, between two teams of the
\* ledger, giving drivers that are on the named rosters, as many one way as the
\* other, is answered 200; from_team's roster becomes its old roster minus
\* drivers_from_team plus drivers_to_team, to_team's the converse, the other
\* rosters stay, and the trade history is one record longer.
C11_ValidTradeSucceeds ==
    [][ ( /\ response'.op = "trade_locked"
          /\ response'.req[1] \in Seasons
          /\ ValidTeamTrade(locked_seasons[response'.req[1]], response'.req[2]) )
        => LET old == locked_seasons[response'.req[1]]
               new == locked_seasons'[response'.req[1]]
               request == response'.req[2]
               given == Range(request.drivers_from_team)
               taken == Range(request.drivers_to_team)
           IN /\ response'.status = 200
              /\ DOMAIN new.teams = DOMAIN old.teams
              /\ Range(new.teams[request.from_team])
                   = ( Range(old.teams[request.from_team]) \ given ) \cup taken
              /\ Range(new.teams[request.to_team])
                   = ( Range(old.teams[request.to_team]) \ taken ) \cup given
              /\ \A t \in DOMAIN old.teams \ { request.from_team, request.to_team } :
                    new.teams[t] = old.teams[t]
              /\ Len(new.trade_history) = Len(old.trade_history) + 1 ]_vars

\* The request names a team that is neither a team of the ledger nor free agency
UnknownTeam(led, request) ==
    \E t \in { request.from_team, request.to_team } :
        t # FREE_AGENCY /\ t \notin DOMAIN led.teams

\* C12: a trade that names a from_team or a to_team that is neither a team of the
\* ledger nor the free-agency sentinel is not answered 200 and leaves the ledger
\* as it was; the team names of a ledger's rosters and of its balances are the
\* same three names from the lock on, and a lock takes them from the teams table.
C12_TradeCreatesNoTeam ==
    /\ [][ ( /\ response'.op = "trade_locked"
             /\ response'.req[1] \in Seasons
             /\ UnknownTeam(locked_seasons[response'.req[1]], response'.req[2]) )
           => ( /\ response'.status # 200
                /\ locked_seasons'[response'.req[1]] = locked_seasons[response'.req[1]] ) ]_vars
    /\ [][ \A s \in DOMAIN locked_seasons' :
              IF s \in Seasons
              THEN DOMAIN locked_seasons'[s].teams = DOMAIN locked_seasons[s].teams
              ELSE DOMAIN locked_seasons'[s].teams = DOMAIN team_table ]_vars
    /\ [](\A s \in Seasons :
              /\ DOMAIN locked_seasons[s].points = DOMAIN locked_seasons[s].teams
              /\ Cardinality(DOMAIN locked_seasons[s].teams) = TeamsToLock)

\* C12 witness: a trade naming the unknown team "X" was requested on a season that
\* exists, and was refused
C12_Witness ==
    /\ TradedOnSeason
    /\ response.status # 200
    /\ UnknownTeam(locked_seasons[response.req[1]], response.req[2])
    /\ response.req[2].drivers_to_team # << >>

\* The points the scoring rule gives to one entry of the feed, in hundredths
RulePoints(e) ==
    IF e.position \in 1..10 THEN e.points
    ELSE IF e.position \in 11..20 /\ e.status \in { "Finished", "Classified", "Lapped" }
    THEN CASE e.position = 11 -> 50 [] e.position = 12 -> 40 [] e.position = 13 -> 30
           [] e.position = 14 -> 20 [] e.position = 15 -> 10 [] e.position = 16 -> 5
           [] e.position = 17 -> 4  [] e.position = 18 -> 3  [] e.position = 19 -> 2
           [] e.position = 20 -> 1
    ELSE 0

\* The entries of a driver in the results of a round
EntriesOf(race_id, driver) ==
    LET results == FeedResults(race_id)
    IN { i \in DOMAIN results : results[i].name = driver }

\* C13: the points stored for a driver in the breakdown of a processed race are
\* the feed's official points for a finishing position 1..10, the fixed custom
\* value (11: 0.50, 12: 0.40, 13: 0.30, 14: 0.20, 15: 0.10, 16: 0.05, 17: 0.04,
\* 18: 0.03, 19: 0.02, 20: 0.01) for a classified position 11..20, and 0 for a
\* position above 20 or an entry that did not finish; always whole hundredths.
C13_StoredDriverPoints ==
    \A s \in Seasons :
      \A r \in DOMAIN locked_seasons[s].race_points :
        \A d \in DOMAIN locked_seasons[s].race_points[r] :
          LET es == EntriesOf(r, d)
              last == CHOOSE i \in es : \A j \in es : j <= i
          IN es # {} =>
               locked_seasons[s].race_points[r][d].points = RulePoints(FeedResults(r)[last])

\* C13 witness: rounds 4 and 5 are scored: a winner (25.00), a classified P11
\* (0.50), a retired P12 (0) and a P21 (0) are in the breakdown
C13_Witness ==
    \E s \in Seasons :
      /\ { "4", "5" } \subseteq DOMAIN locked_seasons[s].race_points
      /\ locked_seasons[s].race_points["4"]["Max Verstappen"].points = 25 * Hundredths
      /\ locked_seasons[s].race_points["4"]["Esteban Ocon"].points = 50
      /\ locked_seasons[s].race_points["4"]["Lewis Hamilton"].points = 0
      /\ locked_seasons[s].race_points["5"]["Jack Doohan"].points = 0

\* The points of a driver for a round: those of its entry in the results, 0 when
\* it has none
RoundPoints(race_id, driver) ==
    LET es == EntriesOf(race_id, driver)
    IN IF es = {} THEN 0
       ELSE RulePoints(FeedResults(race_id)[CHOOSE i \in es : \A j \in es : j <= i])

\* C14: a scoring of race R that is answered 200 increases the balance of each
\* team of the ledger by the sum of the points for R of the drivers on its roster
\* at that moment (0 for a driver that is not in the results), and stores under R,
\* for each such driver, its points and the team that owns it.
C14_ScoringCreditsRosters ==
    [][ ( response'.op = "update_race_points" /\ response'.status = 200 )
        => LET old == locked_seasons[response'.req[1]]
               new == locked_seasons'[response'.req[1]]
               R == response'.detail
               rostered == UNION { Range(old.teams[t]) : t \in DOMAIN old.teams }
           IN /\ \A t \in DOMAIN old.teams :
                    new.points[t] = old.points[t]
                       + SumOver(Range(old.teams[t]),
                                 [ d \in Range(old.teams[t]) |-> RoundPoints(R, d) ])
              /\ DOMAIN new.race_points[R] = rostered
              /\ \A t \in DOMAIN old.teams : \A d \in Range(old.teams[t]) :
                    new.race_points[R][d] = [ points |-> RoundPoints(R, d), team |-> t ] ]_vars

\* C14 witness: round 4 was scored after another round, on balances that were not
\* zero; Albon, on C's roster and not in the results of round 4, is stored with 0
C14_Witness ==
    /\ response.op = "update_race_points"
    /\ response.status = 200
    /\ response.detail = "4"
    /\ LET led == locked_seasons[response.req[1]]
       IN /\ Len(led.processed_races) = 2
          /\ led.race_points["4"]["Alexander Albon"] = [ points |-> 0, team |-> "C" ]
          /\ led.points["A"] > SumOver(Range(led.teams["A"]),
                                       [ d \in Range(led.teams["A"]) |-> RoundPoints("4", d) ])

\* The rounds of the calendar, in calendar order
CalendarRounds ==
    << "4", "5", "6", "7", "8", "9", "10", "11", "12", "13", "14",
       "15", "16", "17", "18", "19", "20", "21", "22", "23", "24" >>

\* C15: a "latest" request that is answered 200 has scored the first round of the
\* calendar (rounds 4..24, in calendar order) that was not in the processed list,
\* and appended it to the list; one that is not answered 200 (results not yet
\* published, or all 21 rounds processed) leaves the ledger as it was; it is never
\* refused as already processed, and never answered 200 once all 21 rounds are
\* processed. No round is in the processed list twice, and the rounds other than
\* round 6 (which is also requested by name) are processed in ascending order.
C15_LatestScoresNextRound ==
    /\ [][ ( /\ response'.op = "update_race_points"
             /\ response'.req[2] = "latest"
             /\ response'.req[1] \in Seasons )
           => LET old == locked_seasons[response'.req[1]]
                  new == locked_seasons'[response'.req[1]]
                  todo == SelectSeq(CalendarRounds,
                                    LAMBDA rn : rn \notin Range(old.processed_races))
              IN /\ response'.detail # "This race has already been processed."
                 /\ IF response'.status = 200
                    THEN /\ todo # << >>
                         /\ response'.detail = Head(todo)
                         /\ new.processed_races = Append(old.processed_races, Head(todo))
                         /\ Head(todo) \in DOMAIN new.race_points
                    ELSE new = old ]_vars
    /\ [](\A s \in Seasons :
            LET processed == locked_seasons[s].processed_races
            IN /\ \A i \in DOMAIN processed, j \in DOMAIN processed :
                     processed[i] = processed[j] => i = j
               /\ IsPrefix(SelectSeq(processed, LAMBDA rn : rn # "6"),
                           SelectSeq(CalendarRounds, LAMBDA rn : rn # "6")))

\* C15 witness: 21 "latest" requests have processed the rounds 4, 5, ..., 24 in
\* this order, and the next one was refused
C15_Witness ==
    /\ response.op = "update_race_points"
    /\ response.req[2] = "latest"
    /\ response.status = 400
    /\ response.detail = "All races have been processed"
    /\ locked_seasons[response.req[1]].processed_races = CalendarRounds

\* C16: a lock that is answered 200 leaves the teams table as it was, and the
\* season it adds has the rosters of the teams table, an empty trade history, an
\* empty processed list and no breakdown, while the seasons that existed stay as
\* they were; and no register, draft, undo or reset request changes any season.
C16_LockIsSnapshot ==
    /\ [][ ( response'.op = "lock_teams" /\ response'.status = 200 )
           => LET s == response'.req[1] IN
              /\ team_table' = team_table
              /\ s \notin Seasons
              /\ DOMAIN locked_seasons' = Seasons \cup {s}
              /\ \A o \in Seasons : locked_seasons'[o] = locked_seasons[o]
              /\ locked_seasons'[s].teams = [ t \in DOMAIN team_table |-> team_table[t].roster ]
              /\ locked_seasons'[s].trade_history = << >>
              /\ locked_seasons'[s].processed_races = << >>
              /\ locked_seasons'[s].race_points = EmptyDict ]_vars
    /\ [][ response'.op \in { "register_team", "draft_driver", "undo_draft", "reset_teams" }
           => locked_seasons' = locked_seasons ]_vars

\* C16 witness: after a lock and a scored race, a driver was removed from a team
\* of the teams table; the season still has the roster of the lock
C16_Witness ==
    /\ response.op = "undo_draft"
    /\ response.status = 200
    /\ \E s \in Seasons :
          /\ locked_seasons[s].processed_races # << >>
          /\ response.req[2] \in Range(locked_seasons[s].teams[response.req[1]])
          /\ response.req[2] \notin Range(team_table[response.req[1]].roster)

\* C17, as claimed: the free-agency pool of a trade is the undrafted pool. A trade
\* on a season that exists, from free agency to a team of the ledger, that takes
\* in return as many drivers of that team's roster and moves no points, is answered
\* 200 if and only if get_free_agents reports every driver it asks for (each is on
\* no roster of the ledger).
C17_FreeAgencyIsUndraftedPool ==
    [][ ( /\ response'.op = "trade_locked"
          /\ response'.req[1] \in Seasons
          /\ LET led == locked_seasons[response'.req[1]]
                 request == response'.req[2]
             IN /\ request.from_team = FREE_AGENCY
                /\ request.to_team \in DOMAIN led.teams
                /\ request.drivers_from_team # << >>
                /\ Range(request.drivers_to_team) \subseteq Range(led.teams[request.to_team])
                /\ Len(request.drivers_from_team) = Len(request.drivers_to_team)
                /\ request.from_team_points = 0 /\ request.to_team_points = 0 )
        => ( response'.status = 200
               <=> Range(response'.req[2].drivers_from_team)
                      \subseteq Range(get_free_agents(locked_seasons[response'.req[1]])) ) ]_vars

\* C18: the trade history of a season is append-only. At every step the history of
\* every season is kept as a prefix of the new one; a trade answered 200 makes the
\* history of its season one record longer, a trade that is refused leaves it as it
\* was, and every other request (scoring, lock, register, draft, undo, reset) and
\* every trade on another season leaves it as it was.
C18_HistoryAppendOnly ==
    [][ \A s \in Seasons :
          /\ s \in DOMAIN locked_seasons'
          /\ LET old == locked_seasons[s].trade_history
                 new == locked_seasons'[s].trade_history
             IN /\ IsPrefix(old, new)
                /\ IF response'.op = "trade_locked" /\ response'.req[1] = s
                      /\ response'.status = 200
                   THEN Len(new) = Len(old) + 1
                   ELSE new = old ]_vars

\* C18 witness: a trade that meets every precondition was requested on a season
\* with a scored race and was refused; the history has no record of it
C18_Witness ==
    /\ TradedOnSeason
    /\ response.status # 200
    /\ ValidTeamTrade(locked_seasons[response.req[1]], response.req[2])
    /\ locked_seasons[response.req[1]].processed_races # << >>
    /\ locked_seasons[response.req[1]].trade_history = << >>

\* The sum of the balances of a ledger, in hundredths
BalanceSum(led) == SumOver(DOMAIN led.points, led.points)

\* The sum of the points of every entry of the breakdown of the processed races
BreakdownSum(led) ==
    LET races == Range(led.processed_races) \cap DOMAIN led.race_points
    IN SumOver(races,
               [ r \in races |->
                   SumOver(DOMAIN led.race_points[r],
                           [ d \in DOMAIN led.race_points[r] |->
                               led.race_points[r][d].points ]) ])

\* C19: the sum of the balances of a season is its sum at lock time plus the sum of
\* the points of every breakdown entry of its processed races: a season starts
\* with no breakdown entry, and every request (trade or scoring) changes the sum of
\* its balances by exactly what it adds to its breakdown.
C19_PointsAccounted ==
    [][ \A s \in DOMAIN locked_seasons' :
          IF s \in Seasons
          THEN \/ locked_seasons'[s] = locked_seasons[s]
               \/ BalanceSum(locked_seasons'[s]) - BalanceSum(locked_seasons[s])
                    = BreakdownSum(locked_seasons'[s]) - BreakdownSum(locked_seasons[s])
          ELSE /\ BreakdownSum(locked_seasons'[s]) = 0
               /\ locked_seasons'[s].processed_races = << >>
               /\ BalanceSum(locked_seasons'[s])
                    = SumOver(DOMAIN team_table,
                              [ t \in DOMAIN team_table |-> team_table[t].points * Hundredths ]) ]_vars

\* C19 witness: a season has scored two races, with trade requests in between and
\* after, and its balances add up to the points of its breakdown
C19_Witness ==
    /\ TradedOnSeason
    /\ LET led == locked_seasons[response.req[1]]
       IN /\ Len(led.processed_races) = 2
          /\ BalanceSum(led) > 0
          /\ BalanceSum(led) = BreakdownSum(led)

\* How many times a driver is held by a ledger: on the rosters of its teams and
\* in its free-agency pool (the drivers get_free_agents reports)
Held(led, d) ==
    LET Occurrences(list) == Cardinality({ i \in DOMAIN list : list[i] = d })
    IN SumOver(DOMAIN led.teams, [ t \in DOMAIN led.teams |-> Occurrences(led.teams[t]) ])
         + Occurrences(get_free_agents(led))

\* The drivers named by a ledger
Named(led) ==
    UNION { Range(led.teams[t]) : t \in DOMAIN led.teams } \cup Range(get_free_agents(led))

C21_ScoringAndTradingDisjoint ==
    [][ \A s \in Seasons :
          /\ s \in DOMAIN locked_seasons'
          /\ response'.op = "update_race_points"
               => ( \/ locked_seasons'[s] = locked_seasons[s]
                    \/ /\ locked_seasons'[s].teams = locked_seasons[s].teams
                       /\ locked_seasons'[s].trade_history = locked_seasons[s].trade_history
                       /\ DOMAIN locked_seasons'[s] = DOMAIN locked_seasons[s]
                       /\ get_free_agents(locked_seasons'[s])
                            = get_free_agents(locked_seasons[s]) )
          /\ response'.op = "trade_locked"
               => ( /\ locked_seasons'[s].processed_races = locked_seasons[s].processed_races
                    /\ locked_seasons'[s].race_points = locked_seasons[s].race_points ) ]_vars

\* C21 witness: round 5 was just scored on a season; its rosters are those of the
\* lock, its history is empty and the free agents are the two undrafted drivers
C21_Witness ==
    /\ response.op = "update_race_points"
    /\ response.status = 200
    /\ response.detail = "5"
    /\ LET led == locked_seasons[response.req[1]]
       IN /\ led.teams = NewLockedSeason(FullTable).teams
          /\ led.trade_history = << >>
          /\ led.points["A"] > 0
          /\ get_free_agents(led) = << "Nico Hulkenberg", "Gabriel Bortoleto" >>

====
